---- MODULE Spec2Model ----
(***************************************************************************)
(* A model of go-spring's flat property store (package conf: Properties),   *)
(* of the placeholder resolver behind Properties.Resolve, and of the        *)
(* Pandora facade of the container (package gs) with the wiring behind it.  *)
(*                                                                          *)
(* Strings are sequences of one-character strings, so that prefix tests,    *)
(* trimming, splitting and number formatting are computed, not assumed.     *)
(***************************************************************************)
EXTENDS Integers, Sequences, FiniteSets, TLC

VARIABLES
    m,       \* Properties.m : the flat store, a function key -> string
    pre,     \* the store as it was before the last store operation
    last,    \* the last store operation: its arguments and what it returned
    nsets,   \* how many mutating calls (Set, Read) have run
    state,   \* Container.state : whether the one-time refresh has completed
    wg,      \* Container.wg : the counter of the wait group
    tasks,   \* the goroutines launched by Go: where each is, how its call ended
    log,     \* what log.Error was called with, and by which task
    crashed, \* the process was terminated by a panic nobody recovered
    closing, \* where the shutdown of the container is
    plast,   \* the last Pandora call: its arguments and what it returned
    overlap, \* the tasks that were running when another task panicked
    pending, \* the tasks that had not finished when the shutdown began
    wired    \* the bean definitions whose wiring has completed

storeVars == <<m, pre, last, nsets>>

gsVars == <<state, wg, tasks, log, crashed, closing, plast, overlap, pending, wired>>

vars == <<m, pre, last, nsets, state, wg, tasks, log, crashed, closing, plast, overlap,
          pending, wired>>

----------------------------------------------------------------------------
(* Bounds of the model.                                                     *)

\* mutating calls (Set / Read) per behaviour
MaxSets == 2

\* goroutines Go launches per behaviour
MaxTasks == 2

\* Keys is called on stores of at most this many keys
MaxListed == 3

----------------------------------------------------------------------------
(* Strings.                                                                 *)

rootKey == <<"$">>

Dot == <<".">>

\* strings.HasPrefix
HasPrefix(s, p) ==
    /\ Len(p) <= Len(s)
    /\ SubSeq(s, 1, Len(p)) = p

\* strings.TrimPrefix
TrimPrefix(s, p) ==
    IF HasPrefix(s, p) THEN SubSeq(s, Len(p) + 1, Len(s)) ELSE s

\* strings.Split(s, ".")[0] : the text before the first "."
RECURSIVE UpToDot(_, _)
UpToDot(s, i) ==
    IF i > Len(s) \/ s[i] = "." THEN SubSeq(s, 1, i - 1) ELSE UpToDot(s, i + 1)

FirstSegment(s) == UpToDot(s, 1)

DigitChar == <<"0", "1", "2", "3", "4", "5", "6", "7", "8", "9">>

\* the decimal form of a natural number (%d, and cast.ToString of an int)
RECURSIVE Digits(_)
Digits(n) ==
    IF n < 10 THEN <<DigitChar[n + 1]>>
    ELSE Digits(n \div 10) \o <<DigitChar[(n % 10) + 1]>>

----------------------------------------------------------------------------
(* Values handed to Set: scalars, maps and slices (interface{}).            *)

VStr(s) == [kind |-> "string", s |-> s]
VInt(n) == [kind |-> "int", n |-> n]
VBool(b) == [kind |-> "bool", b |-> b]
Nil == [kind |-> "nil"]
\* a Go map: entries with pairwise distinct keys, iterated in no fixed order
MapOf(entries) == [kind |-> "map", entries |-> entries]
SliceOf(elems) == [kind |-> "slice", elems |-> elems]
Entry(k, v) == [k |-> k, v |-> v]

\* cast.ToString on the scalars of the model; nil gives ""
castToString(v) ==
    CASE v.kind = "string" -> v.s
      [] v.kind = "int" -> Digits(v.n)
      [] v.kind = "bool" -> IF v.b THEN <<"t", "r", "u", "e">>
                            ELSE <<"f", "a", "l", "s", "e">>
      [] OTHER -> <<>>

\* the values passed to Set
Vals == <<
    VStr(<<"x">>),
    Nil,
    MapOf(<<>>),
    MapOf(<<Entry(VStr(<<"b">>), VInt(10))>>),
    MapOf(<<Entry(VStr(<<"b", ".", "c">>), VInt(1)),
            Entry(VStr(<<"b">>), MapOf(<<Entry(VStr(<<"c">>), VInt(2))>>))>>),
    SliceOf(<<VStr(<<"x">>), MapOf(<<Entry(VInt(1), VBool(TRUE))>>)>>),
    MapOf(<<Entry(VStr(<<"o", "n", "e">>), MapOf(<<Entry(VStr(<<"u">>), VStr(<<"p">>))>>)),
            Entry(VStr(<<"t", "w", "o">>), MapOf(<<Entry(VStr(<<"u">>), VStr(<<"q">>))>>))>>)
>>

ValIdx == 1..Len(Vals)

\* the keys passed to Set
SetKeys == { <<"a">>, <<"$", ".", "a">>, <<"d", "b">> }

----------------------------------------------------------------------------
(* Properties.Set                                                           *)

Write(k, s) == [k |-> k, s |-> s]

\* key + "." + mapKey
MapSubKey(key, mapKey) == key \o Dot \o mapKey

\* a variant that numbers the elements from 1
SliceSubKeyBug(key, i) == key \o <<"[">> \o Digits(i + 1) \o <<"]">>

\* fmt.Sprintf("%s[%d]", key, i), i counted from 0
SliceSubKey(key, i) == key \o <<"[">> \o Digits(i) \o <<"]">>

\* The writes p.m[key] = cast.ToString(val) that Set(key, val) performs, in
\* order.  A map is ranged over in an unspecified order, so the result is the
\* set of the write sequences the call can perform.
RECURSIVE SetWrites(_, _), RangeMap(_, _, _, _, _), RangeSlice(_, _, _)

\* for _, k := range v.MapKeys() { p.Set(key+"."+mapKey, mapValue) }
\* with top = TRUE: Read's  for k, v := range m { p.Set(k, v) }
RangeMap(key, top, entries, ord, i) ==
    IF i > Len(entries) THEN { <<>> }
    ELSE LET e == entries[ord[i]]
             mapKey == castToString(e.k)
             sub == IF top THEN mapKey ELSE MapSubKey(key, mapKey)
         IN { w1 \o w2 : w1 \in SetWrites(sub, e.v),
                         w2 \in RangeMap(key, top, entries, ord, i + 1) }

\* for i := 0; i < v.Len(); i++ { p.Set(fmt.Sprintf("%s[%d]", key, i), v.Index(i)) }
RangeSlice(key, elems, i) ==
    IF i > Len(elems) THEN { <<>> }
    ELSE { w1 \o w2 : w1 \in SetWrites(SliceSubKey(key, i - 1), elems[i]),
                      w2 \in RangeSlice(key, elems, i + 1) }

SetWrites(key, val) ==
    CASE val.kind = "map" ->
            UNION { RangeMap(key, FALSE, val.entries, ord, 1) :
                        ord \in Permutations(1..Len(val.entries)) }
      [] val.kind = "slice" -> RangeSlice(key, val.elems, 1)
      [] OTHER -> { << Write(key, castToString(val)) >> }

\* a variant that keeps the value of a key already present
StoreBug(mm, key, s) ==
    [k \in (DOMAIN mm) \cup {key} |-> IF k \in DOMAIN mm THEN mm[k] ELSE s]

\* p.m[key] = s
Store(mm, key, s) ==
    [k \in (DOMAIN mm) \cup {key} |-> IF k = key THEN s ELSE mm[k]]

EmptyStore == [k \in {} |-> <<>>]

\* a variant in which every write starts from a fresh store
RECURSIVE ApplyBug(_, _)
ApplyBug(mm, ws) ==
    IF ws = <<>> THEN mm
    ELSE ApplyBug(Store(EmptyStore, Head(ws).k, Head(ws).s), Tail(ws))

\* the store after a sequence of writes
RECURSIVE Apply(_, _)
Apply(mm, ws) ==
    IF ws = <<>> THEN mm
    ELSE Apply(Store(mm, Head(ws).k, Head(ws).s), Tail(ws))

NoRet == [isnil |-> TRUE, s |-> <<>>]

Op(name, key, vi, ws, ret, err, list, rep) ==
    [op |-> name, key |-> key, vi |-> vi, writes |-> ws, ret |-> ret,
     err |-> err, list |-> list, rep |-> rep]

Set ==
    /\ nsets < MaxSets
    /\ \E key \in SetKeys, vi \in ValIdx :
         \E ws \in SetWrites(key, Vals[vi]) :
            /\ m' = Apply(m, ws)
            /\ pre' = m
            /\ last' = Op("Set", key, vi, ws, NoRet, "", <<>>,
                          last.op = "Set" /\ last.key = key /\ last.vi = vi)
    /\ nsets' = nsets + 1
    /\ UNCHANGED gsVars

----------------------------------------------------------------------------
(* Properties.Get                                                           *)

\* the option lists passed to Get: each option is Def(v)
OptLists == <<
    <<>>,
    <<Nil>>,
    <<VStr(<<"d">>), VBool(FALSE)>>
>>

OptIdx == 1..Len(OptLists)

\* the keys passed to Get
GetKeys == { <<"a">>, <<"$", ".", "a">>, <<"$", ".", "$", ".", "a">>,
             <<"a", ".", "b">>, <<"d", "b", "[", "1", "]", ".", "1">> }

\* arg := getArg{}; for _, opt := range opts { opt(&arg) } : arg.def
RECURSIVE ApplyOpts(_, _)
ApplyOpts(def, opts) ==
    IF opts = <<>> THEN def ELSE ApplyOpts(Head(opts), Tail(opts))

\* key = strings.TrimPrefix(key, rootKey+".")
TrimRoot(key) == TrimPrefix(key, rootKey \o Dot)

\* a variant that takes an empty value for a missing one
PresentBug(mm, key) == key \in DOMAIN mm /\ mm[key] # <<>>

\* if val, ok := p.m[key]; ok { return val }
Present(mm, key) == key \in DOMAIN mm

\* what Get returns: a string, or nil
GetValue(mm, key0, opts) ==
    LET key == TrimRoot(key0)
        def == ApplyOpts(Nil, opts)
    IN IF Present(mm, key) THEN [isnil |-> FALSE, s |-> mm[key]]
       ELSE IF def.kind # "nil" THEN [isnil |-> FALSE, s |-> castToString(def)]
       ELSE NoRet

Get ==
    /\ \E key \in GetKeys, oi \in OptIdx :
         last' = Op("Get", key, oi, <<>>, GetValue(m, key, OptLists[oi]), "", <<>>, FALSE)
    /\ pre' = m
    /\ UNCHANGED <<m, nsets>>
    /\ UNCHANGED gsVars

----------------------------------------------------------------------------
(* Properties.Read                                                          *)

Exts == { ".yaml", ".txt" }

\* the decoder registry, keyed by file extension
readers == { ".yaml", ".yml" }

\* what the decoder of a registered extension returns for the documents of
\* the model: a map and an error ("" is nil)
Docs == <<
    [m |-> Vals[4], err |-> ""],
    [m |-> Vals[5], err |-> ""],
    [m |-> Vals[3], err |-> "yaml: did not find expected key"],
    [m |-> Vals[7], err |-> "yaml: incomplete document"]
>>

DocIdx == 1..Len(Docs)

\* fmt.Errorf("unsupported file type %s", ext)
Unsupported(ext) == "unsupported file type " \o ext

\* a variant that drops the error of the decoder
ReadErrBug(ext, doc) ==
    IF ext \notin readers THEN Unsupported(ext) ELSE ""

\* the error Read returns ("" is nil): no decoder for ext, or the error of
\* the decoder
ReadErr(ext, doc) ==
    IF ext \notin readers THEN Unsupported(ext) ELSE doc.err

\* for k, v := range m { p.Set(k, v) }
ReadWrites(doc) ==
    UNION { RangeMap(<<>>, TRUE, doc.m.entries, ord, 1) :
                ord \in Permutations(1..Len(doc.m.entries)) }

Read ==
    /\ nsets < MaxSets
    /\ \E ext \in Exts, di \in DocIdx :
         LET err == ReadErr(ext, Docs[di])
         IN \E ws \in (IF err # "" THEN { <<>> } ELSE ReadWrites(Docs[di])) :
              /\ m' = Apply(m, ws)
              /\ pre' = m
              /\ last' = Op("Read", <<ext>>, di, ws, NoRet, err, <<>>, FALSE)
    /\ nsets' = nsets + 1
    /\ UNCHANGED gsVars

----------------------------------------------------------------------------
(* Properties.Keys                                                          *)

\* for k := range p.m { keys = append(keys, k) } : the keys of the map, each
\* once, in an unspecified order
RECURSIVE KeyOrders(_)
KeyOrders(S) ==
    IF S = {} THEN { <<>> }
    ELSE UNION { { <<k>> \o o : o \in KeyOrders(S \ {k}) } : k \in S }

Keys ==
    /\ Cardinality(DOMAIN m) <= MaxListed
    /\ \E keys \in KeyOrders(DOMAIN m) :
         last' = Op("Keys", <<>>, 0, <<>>, NoRet, "", keys, FALSE)
    /\ pre' = m
    /\ UNCHANGED <<m, nsets>>
    /\ UNCHANGED gsVars

----------------------------------------------------------------------------
(* Properties.Group                                                         *)

\* the prefixes passed to Group
GroupPrefixes == { rootKey, <<"d", "b">>, <<"d">>, <<"a">> }

\* the closure trimPrefix of Group: [ok, s]
trimPrefix(key, prefix) ==
    IF prefix = rootKey THEN [ok |-> TRUE, s |-> key]
    ELSE IF ~HasPrefix(key, prefix \o Dot) THEN [ok |-> FALSE, s |-> <<>>]
    ELSE [ok |-> TRUE, s |-> TrimPrefix(key, prefix \o Dot)]

\* contain.Strings(groups, k): the index of k in groups (from 0), or -1
containStrings(groups, k) ==
    IF \E i \in 1..Len(groups) : groups[i] = k
    THEN (CHOOSE i \in 1..Len(groups) :
              groups[i] = k /\ \A j \in 1..(i - 1) : groups[j] # k) - 1
    ELSE -1

\* a variant that does not look for the name among the groups found
GroupStepBug(groups, key, prefix) ==
    LET t == trimPrefix(key, prefix)
    IN IF ~t.ok THEN groups ELSE Append(groups, FirstSegment(t.s))

\* one iteration of the loop of Group, for key
GroupStep(groups, key, prefix) ==
    LET t == trimPrefix(key, prefix)
        k == FirstSegment(t.s)
    IN IF ~t.ok THEN groups
       ELSE IF containStrings(groups, k) >= 0 THEN groups
       ELSE Append(groups, k)

\* Keys() hands the keys over in an unspecified order: the loop of Group run
\* over every order, as the set of [rem: keys still to come, groups] it can
\* be in after n iterations
RECURSIVE GroupLoop(_, _, _)
GroupLoop(S, prefix, n) ==
    IF n = 0 THEN S
    ELSE GroupLoop(UNION { { [rem |-> x.rem \ {key},
                              groups |-> GroupStep(x.groups, key, prefix)] :
                                key \in x.rem } : x \in S },
                   prefix, n - 1)

\* the lists Group(prefix) can return
GroupResults(mm, prefix) ==
    { x.groups : x \in GroupLoop({ [rem |-> DOMAIN mm, groups |-> <<>>] },
                                 prefix, Cardinality(DOMAIN mm)) }

Group ==
    /\ \E prefix \in GroupPrefixes :
         \E groups \in GroupResults(m, prefix) :
            last' = Op("Group", prefix, 0, <<>>, NoRet, "", groups, FALSE)
    /\ pre' = m
    /\ UNCHANGED <<m, nsets>>
    /\ UNCHANGED gsVars

----------------------------------------------------------------------------
(* Properties.Resolve and the placeholder resolver behind it.               *)

\* the stores Resolve is run on
ResolveStores == {
    \* nothing
    Apply(EmptyStore, <<>>),
    \* x = 7
    Apply(EmptyStore, <<Write(<<"x">>, <<"7">>)>>),
    \* b refers to a, which is missing
    Apply(EmptyStore, <<Write(<<"b">>, <<"$", "{", "a", "}">>)>>),
    \* a and b refer to each other
    Apply(EmptyStore, <<Write(<<"a">>, <<"$", "{", "b", "}">>), Write(<<"b">>, <<"$", "{", "a", "}">>)>>),
    \* a refers to itself
    Apply(EmptyStore, <<Write(<<"a">>, <<"$", "{", "a", "}">>)>>),
    \* b refers to a twice
    Apply(EmptyStore, <<Write(<<"a">>, <<"1">>), Write(<<"b">>, <<"$", "{", "a", "}", "$", "{", "a", "}">>)>>),
    \* b falls back on x through c
    Apply(EmptyStore, <<Write(<<"b">>, <<"$", "{", "c", ":", "=", "$", "{", "x", ":", "=", "5", "}", "}">>), Write(<<"x">>, <<"7">>)>>),
    \* a is empty
    Apply(EmptyStore, <<Write(<<"a">>, <<>>)>>)
}

\* the strings passed to Resolve
ResolveStrings == {
    \* the empty string
    <<>>,
    \* lit
    <<"l", "i", "t">>,
    \* ${x:=5}
    <<"$", "{", "x", ":", "=", "5", "}">>,
    \* ${a:=${b}}
    <<"$", "{", "a", ":", "=", "$", "{", "b", "}", "}">>,
    \* ${b}
    <<"$", "{", "b", "}">>,
    \* p${x:=5}q${b:=0}
    <<"p", "$", "{", "x", ":", "=", "5", "}", "q", "$", "{", "b", ":", "=", "0", "}">>,
    \* ${:=${:=y}}
    <<"$", "{", ":", "=", "$", "{", ":", "=", "y", "}", "}">>,
    \* ${x:=${x:=5}}
    <<"$", "{", "x", ":", "=", "$", "{", "x", ":", "=", "5", "}", "}">>,
    \* ${a:=${b:=${x}}}
    <<"$", "{", "a", ":", "=", "$", "{", "b", ":", "=", "$", "{", "x", "}", "}", "}">>
}

\* the position of the first "${" of s at or after i, 0 if there is none
RECURSIVE RefStart(_, _)
RefStart(s, i) ==
    IF i >= Len(s) THEN 0
    ELSE IF s[i] = "$" /\ s[i + 1] = "{" THEN i
    ELSE RefStart(s, i + 1)

\* the position of the "}" that closes the reference opened at start: the
\* scan counts every "${" up and every "}" down; 0 if it is never closed
RECURSIVE RefEnd(_, _, _)
RefEnd(s, i, count) ==
    IF i > Len(s) THEN 0
    ELSE IF s[i] = "$" /\ i < Len(s) /\ s[i + 1] = "{" THEN RefEnd(s, i + 1, count + 1)
    ELSE IF s[i] = "}" /\ count = 1 THEN i
    ELSE IF s[i] = "}" /\ count > 1 THEN RefEnd(s, i + 1, count - 1)
    ELSE RefEnd(s, i + 1, count)

\* the position of the first ":=" of body at or after i, 0 if there is none
RECURSIVE DefaultAt(_, _)
DefaultAt(body, i) ==
    IF i >= Len(body) THEN 0
    ELSE IF body[i] = ":" /\ body[i + 1] = "=" THEN i
    ELSE DefaultAt(body, i + 1)

\* name and default of the reference ${body}
SplitDefault(body) ==
    LET at == DefaultAt(body, 1)
    IN IF at = 0 THEN [name |-> body, hasDef |-> FALSE, def |-> <<>>]
       ELSE [name |-> SubSeq(body, 1, at - 1), hasDef |-> TRUE,
             def |-> SubSeq(body, at + 2, Len(body))]

Resolved(s) == [err |-> "", s |-> s]

ResolveError(err) == [err |-> err, s |-> <<>>]

\* a variant that takes a reference that closes a circle for the empty text
OnCycleBug(name) == Resolved(<<>>)

\* a name that is met again while it is being resolved
OnCycle(name) == ResolveError("reference cycle")

\* a variant that prefers the default to the value of the store
ChosenBug(v, ref) ==
    IF ref.hasDef THEN [ok |-> TRUE, s |-> ref.def]
    ELSE IF ~v.isnil THEN [ok |-> TRUE, s |-> v.s]
    ELSE [ok |-> FALSE, s |-> <<>>]

\* the text that stands for a reference: the value of the store if the
\* name is present, the default if it is absent and there is one
Chosen(v, ref) ==
    IF ~v.isnil THEN [ok |-> TRUE, s |-> v.s]
    ELSE IF ref.hasDef THEN [ok |-> TRUE, s |-> ref.def]
    ELSE [ok |-> FALSE, s |-> <<>>]

\* resolveString(p, s): the references of s are resolved from left to right
\* and put together with the text between them.  chain holds the names
\* whose resolution is under way; the text that stands for a reference is
\* resolved in turn.
RECURSIVE resolveString(_, _, _), resolveRef(_, _, _)

resolveRef(mm, body, chain) ==
    LET ref == SplitDefault(body)
        c == Chosen(GetValue(mm, ref.name, <<>>), ref)
    IN IF ref.name # <<>> /\ \E i \in DOMAIN chain : chain[i] = ref.name
       THEN OnCycle(ref.name)
       ELSE IF ~c.ok THEN ResolveError("property not exists")
       ELSE resolveString(mm, c.s,
                          IF ref.name = <<>> THEN chain ELSE Append(chain, ref.name))

resolveString(mm, s, chain) ==
    LET start == RefStart(s, 1)
        end == IF start = 0 THEN 0 ELSE RefEnd(s, start, 0)
    IN IF start = 0 \/ end = 0 THEN Resolved(s)
       ELSE LET r1 == resolveRef(mm, SubSeq(s, start + 2, end - 1), chain)
            IN IF r1.err # "" THEN r1
               ELSE LET r2 == resolveString(mm, SubSeq(s, end + 1, Len(s)), chain)
                    IN IF r2.err # "" THEN r2
                       ELSE Resolved(SubSeq(s, 1, start - 1) \o r1.s \o r2.s)

\* Properties.Resolve
Resolve ==
    /\ \E s \in ResolveStrings :
         LET r == resolveString(m, s, <<>>)
         IN last' = Op("Resolve", s, 0, <<>>, [isnil |-> FALSE, s |-> r.s], r.err,
                       <<>>, FALSE)
    /\ pre' = m
    /\ UNCHANGED <<m, nsets>>
    /\ UNCHANGED gsVars

----------------------------------------------------------------------------
(* The container behind Pandora.                                            *)

TaskIds == 1..MaxTasks

\* late: launched after the wait of the shutdown had returned
NoTask == [st |-> "none", out |-> "none", panicking |-> FALSE, late |-> FALSE]

\* Container.callAfterRefreshing: passes once the refresh has completed,
\* panics with a usage error before
Refreshed == state = "Refreshed"

NotRefreshed == "should call after Refreshing"

\* chain: the chain of definitions an error of the wiring reports;
\* calls: how many times the function handed in was called
PCall(name, arg, outcome, err, work, ret, beans) ==
    [op |-> name, arg |-> arg, before |-> ~Refreshed, outcome |-> outcome,
     err |-> err, work |-> work, ret |-> ret, beans |-> beans, chain |-> <<>>,
     calls |-> 0]

\* a call that panicked in callAfterRefreshing
Rejected(name, arg) == PCall(name, arg, "panic", NotRefreshed, {}, NoRet, <<>>)

\* what a definition requires: a bean of a type, picked by a selector
Req(type, selector) == [type |-> type, selector |-> selector]

\* the bean definitions registered with the container: name, type and the
\* beans the definition requires (fields and constructor arguments).
\* d requires e and f, which both require a; p and q require each other.
BeanDefs == <<
    [name |-> "a", type |-> "T", requires |-> <<>>],
    [name |-> "b", type |-> "U", requires |-> <<>>],
    [name |-> "c", type |-> "U", requires |-> <<>>],
    [name |-> "d", type |-> "D", requires |-> <<Req("E", ""), Req("F", "")>>],
    [name |-> "e", type |-> "E", requires |-> <<Req("T", "a")>>],
    [name |-> "f", type |-> "F", requires |-> <<Req("T", "")>>],
    [name |-> "p", type |-> "P", requires |-> <<Req("Q", "")>>],
    [name |-> "q", type |-> "Q", requires |-> <<Req("P", "p")>>]
>>

\* Container.find / the lookup of getBean: the definitions of a type that a
\* selector matches; the empty selector matches by type alone
Matches(type, selector) ==
    { n \in 1..Len(BeanDefs) :
        /\ BeanDefs[n].type = type
        /\ selector = "" \/ BeanDefs[n].name = selector }

\* the arguments i of the model: nil, a struct value, pointers
Targets == { "nil", "T", "*T", "*U", "*V", "*D", "*P" }

IsPtr(i) == i \in { "*T", "*U", "*V", "*D", "*P" }

\* the type a pointer points to
Elem(i) ==
    CASE i = "*T" -> "T" [] i = "*U" -> "U" [] i = "*D" -> "D" [] i = "*P" -> "P"
      [] OTHER -> "V"

\* the outcome of a step of the wiring: an error ("" is nil) with the chain
\* it reports, and the definitions that are Wired after the step
WireResult(err, chain, w) == [err |-> err, chain |-> chain, wired |-> w]

\* Depth-first wiring.  chain holds the names of the beans that are being
\* wired (state Wiring), outermost first; w holds the definitions that are
\* Wired.  A definition that is Wired is used as it is; one that is found
\* on the chain again closes a circle, reported with the whole chain; any
\* other is put on the chain, its requirements are wired in order, each
\* under the single-match contract of getBean, and then it is Wired.
RECURSIVE wireDefinition(_, _, _), wireRequires(_, _, _)

wireRequires(reqs, chain, w) ==
    IF reqs = <<>> THEN WireResult("", <<>>, w)
    ELSE LET found == Matches(Head(reqs).type, Head(reqs).selector)
         IN IF found = {} THEN WireResult("can't find bean", chain, w)
            ELSE IF Cardinality(found) > 1
            THEN WireResult("found more than one bean", chain, w)
            ELSE LET r == wireDefinition(CHOOSE n \in found : TRUE, chain, w)
                 IN IF r.err # "" THEN r
                    ELSE wireRequires(Tail(reqs), chain, r.wired)

wireDefinition(n, chain, w) ==
    LET name == BeanDefs[n].name
    IN IF n \in w THEN WireResult("", <<>>, w)
       ELSE IF \E i \in DOMAIN chain : chain[i] = name
       THEN WireResult("found circle autowire", Append(chain, name), w)
       ELSE LET r == wireRequires(BeanDefs[n].requires, Append(chain, name), w)
            IN IF r.err # "" THEN r
               ELSE WireResult("", <<>>, r.wired \cup {n})

Selectors == { "", "b" }

\* the container is up: the process lives
Alive == ~crashed

Refresh ==
    /\ Alive
    /\ state = "Unrefreshed"
    /\ state' = "Refreshed"
    /\ UNCHANGED <<wg, tasks, log, crashed, closing, plast, overlap, pending>>
    /\ UNCHANGED storeVars
    /\ UNCHANGED wired

\* pandora.Prop
Prop ==
    /\ Alive
    /\ \E key \in { <<"a">>, <<"$", ".", "z">> } :
         plast' = PCall("Prop", key, "ok", "", {"property read"},
                        GetValue(m, key, <<>>), <<>>)
    /\ UNCHANGED <<state, wg, tasks, log, crashed, closing, overlap, pending>>
    /\ UNCHANGED storeVars
    /\ UNCHANGED wired

\* what a lookup delivers: an error ("" is nil) with the chain it reports,
\* the beans assigned to the target, the definitions Wired after it
Found(err, chain, beans, w) ==
    [err |-> err, chain |-> chain, beans |-> beans, wired |-> w]

\* assembly.getBean: exactly one matching singleton is wired, if it is not
\* yet, and then assigned to the target
getBean(selector, type, w) ==
    LET found == Matches(type, selector)
    IN IF found = {} THEN Found("can't find bean", <<>>, <<>>, w)
       ELSE IF Cardinality(found) > 1
       THEN Found("found more than one bean", <<>>, <<>>, w)
       ELSE LET n == CHOOSE n \in found : TRUE
                r == wireDefinition(n, <<>>, w)
            IN IF r.err # "" THEN Found(r.err, r.chain, <<>>, r.wired)
               ELSE Found("", <<>>, <<n>>, r.wired)

\* a variant without the test for nil
IsNilBug(i) == FALSE

\* if i == nil { return errors.New("i can't be nil") }
IsNil(i) == i = "nil"

\* pandora.Get
pandora_Get ==
    /\ Alive
    /\ \E i \in Targets, selector \in Selectors :
         /\ plast' =
            IF IsNil(i)
            THEN PCall("Get", <<i, selector>>, "error", "i can't be nil", {}, NoRet, <<>>)
            ELSE IF ~Refreshed THEN Rejected("Get", <<i, selector>>)
            ELSE IF ~IsPtr(i)
            THEN PCall("Get", <<i, selector>>, "error", "i must be pointer", {}, NoRet, <<>>)
            ELSE LET r == getBean(selector, Elem(i), wired)
                 IN [PCall("Get", <<i, selector>>, IF r.err = "" THEN "ok" ELSE "error",
                           r.err, {"bean lookup"}, NoRet, r.beans)
                       EXCEPT !.chain = r.chain]
         /\ wired' = IF ~IsNil(i) /\ Refreshed /\ IsPtr(i)
                     THEN getBean(selector, Elem(i), wired).wired
                     ELSE wired
    /\ UNCHANGED <<state, wg, tasks, log, crashed, closing, overlap, pending>>
    /\ UNCHANGED storeVars

\* the elements of a set of numbers, in increasing order
RECURSIVE SortedSeq(_)
SortedSeq(S) ==
    IF S = {} THEN <<>>
    ELSE LET least == CHOOSE x \in S : \A y \in S : x <= y
         IN <<least>> \o SortedSeq(S \ {least})

\* pandora.Find: no refresh is asked for
Find ==
    /\ Alive
    /\ \E type \in { "T", "U" }, selector \in Selectors :
         plast' = PCall("Find", <<type, selector>>, "ok", "", {"bean lookup"}, NoRet,
                        SortedSeq(Matches(type, selector)))
    /\ UNCHANGED <<state, wg, tasks, log, crashed, closing, overlap, pending>>
    /\ UNCHANGED storeVars
    /\ UNCHANGED wired

\* assembly.collectBeans with selectors: one singleton for each, in the
\* order of the selectors, an error if one of them does not match exactly
\* one definition
RECURSIVE collectBeans(_, _, _)
collectBeans(selectors, type, w) ==
    IF selectors = <<>> THEN Found("", <<>>, <<>>, w)
    ELSE LET r == getBean(Head(selectors), type, w)
         IN IF r.err # "" THEN r
            ELSE LET rest == collectBeans(Tail(selectors), type, r.wired)
                 IN IF rest.err # "" THEN rest
                    ELSE Found("", <<>>, r.beans \o rest.beans, rest.wired)

\* assembly.collectBeans without selectors: every definition of the element
\* type, each wired if it is not yet
RECURSIVE collectAll(_, _)
collectAll(ns, w) ==
    IF ns = <<>> THEN Found("", <<>>, <<>>, w)
    ELSE LET r == wireDefinition(Head(ns), <<>>, w)
         IN IF r.err # "" THEN Found(r.err, r.chain, <<>>, r.wired)
            ELSE LET rest == collectAll(Tail(ns), r.wired)
                 IN IF rest.err # "" THEN rest
                    ELSE Found("", <<>>, <<Head(ns)>> \o rest.beans, rest.wired)

SelectorLists == { <<>>, <<"c", "b">>, <<"b", "a">>, <<"b", "">> }

\* a variant that puts each tag in front of those collected so far
RECURSIVE beanTagsBug(_, _)
beanTagsBug(tags, selectors) ==
    IF selectors = <<>> THEN tags
    ELSE beanTagsBug(<<Head(selectors)>> \o tags, Tail(selectors))

\* for _, selector := range selectors {
\*     tag.beanTags = append(tag.beanTags, toSingletonTag(selector)) }
RECURSIVE beanTags(_, _)
beanTags(tags, selectors) ==
    IF selectors = <<>> THEN tags
    ELSE beanTags(Append(tags, Head(selectors)), Tail(selectors))

\* return toAssembly(p.c).collectBeans(tag, v.Elem())
Collected(selectors, type, w) ==
    LET tags == beanTags(<<>>, selectors)
    IN IF tags = <<>> THEN collectAll(SortedSeq(Matches(type, "")), w)
       ELSE collectBeans(tags, type, w)

\* pandora.Collect
Collect ==
    /\ Alive
    /\ \E i \in { "U", "*U" }, selectors \in SelectorLists :
         /\ plast' =
            IF ~Refreshed THEN Rejected("Collect", <<i>> \o selectors)
            ELSE IF ~IsPtr(i)
            THEN PCall("Collect", <<i>> \o selectors, "error", "i must be slice ptr",
                       {}, NoRet, <<>>)
            ELSE LET r == Collected(selectors, Elem(i), wired)
                 IN [PCall("Collect", <<i>> \o selectors,
                           IF r.err = "" THEN "ok" ELSE "error",
                           r.err, {"bean lookup"}, NoRet, r.beans)
                       EXCEPT !.chain = r.chain]
         /\ wired' = IF Refreshed /\ IsPtr(i)
                     THEN Collected(selectors, Elem(i), wired).wired
                     ELSE wired
    /\ UNCHANGED <<state, wg, tasks, log, crashed, closing, overlap, pending>>
    /\ UNCHANGED storeVars

\* the arguments passed to Bind: nil, a struct value, a pointer to one, and
\* a reflect.Value (a struct that wraps a value, addressable or not)
BindTargets == { "nil", "T", "*T", "reflect.Value" }

\* the binder bind(p, v, tag, opt): reads the properties the tag names and
\* assigns them to the fields of the target
bind(mm, tag) ==
    [err |-> "", work |-> {"property read", "binding"}]

\* Properties.Bind
PropertiesBind(mm, i, tag) ==
    IF i # "reflect.Value" /\ ~IsPtr(i)
    THEN [err |-> "the object to bind must be a pointer", work |-> {}]
    ELSE bind(mm, tag)

\* pandora.Bind
pandora_Bind ==
    /\ Alive
    /\ \E i \in BindTargets :
         LET r == PropertiesBind(m, i, <<"$", "{", "$", "}">>)
         IN plast' = PCall("Bind", <<i>>, IF r.err = "" THEN "ok" ELSE "error",
                           r.err, r.work, NoRet, <<>>)
    /\ UNCHANGED <<state, wg, tasks, log, crashed, closing, overlap, pending>>
    /\ UNCHANGED storeVars
    /\ UNCHANGED wired

\* what is handed to Wire, with what NewBean(objOrCtor, ctorArgs...) makes
\* of it: a bean outside the registry, and what it requires
AdHoc == <<
    [name |-> "object", requires |-> <<Req("U", "b"), Req("T", "")>>],
    [name |-> "constructor", requires |-> <<Req("D", "")>>],
    [name |-> "cyclic", requires |-> <<Req("T", ""), Req("P", "")>>],
    [name |-> "ambiguous", requires |-> <<Req("U", "")>>]
>>

\* assembly.wireBean: construction, injection and binding of one bean,
\* which heads the chain of the beans being wired
wireBean(b, w) == wireRequires(b.requires, <<b.name>>, w)

\* a variant that hands the bean back whatever wireBean returned
WireOutBug(b, err) == [ret |-> [isnil |-> FALSE, s |-> <<b.name>>], err |-> err]

\* if err := assembly.wireBean(b); err != nil { return nil, err }
\* return b.Interface(), nil
WireOut(b, err) ==
    IF err # "" THEN [ret |-> NoRet, err |-> err]
    ELSE [ret |-> [isnil |-> FALSE, s |-> <<b.name>>], err |-> ""]

\* pandora.Wire
Wire ==
    /\ Alive
    /\ \E n \in DOMAIN AdHoc :
         LET b == AdHoc[n]
         IN IF ~Refreshed
            THEN /\ plast' = Rejected("Wire", <<b.name>>)
                 /\ UNCHANGED wired
            ELSE LET r == wireBean(b, wired)
                     out == WireOut(b, r.err)
                 IN /\ plast' = [PCall("Wire", <<b.name>>,
                                       IF out.err = "" THEN "ok" ELSE "error",
                                       out.err, {"wiring"}, out.ret, <<>>)
                                   EXCEPT !.chain = r.chain]
                    /\ wired' = r.wired
    /\ UNCHANGED <<state, wg, tasks, log, crashed, closing, overlap, pending>>
    /\ UNCHANGED storeVars

\* what the model passes as fn
Fns == { "func()", "func() error", "func() int", "not a func" }

\* util.IsFuncType
IsFuncType(fn) == fn # "not a func"

\* util.ReturnNothing
ReturnNothing(fn) == fn = "func()"

\* util.ReturnOnlyError
ReturnOnlyError(fn) == fn = "func() error"

\* the first task id not in use
FreeTask == CHOOSE t \in TaskIds : tasks[t].st = "none" /\ \A u \in 1..(t - 1) : tasks[u].st # "none"

\* a variant that does not count the task
wgAddBug(n) == n

\* p.c.wg.Add(1)
wgAdd(n) == n + 1

\* pandora.Go
Go ==
    /\ Alive
    /\ \E fn \in Fns :
         IF ~Refreshed
         THEN /\ plast' = Rejected("Go", <<fn>>)
              /\ UNCHANGED <<wg, tasks>>
         ELSE IF ~IsFuncType(fn) \/ ~ReturnNothing(fn)
         THEN /\ plast' = PCall("Go", <<fn>>, "panic", "fn should be func()", {}, NoRet, <<>>)
              /\ UNCHANGED <<wg, tasks>>
         ELSE /\ \E t \in TaskIds : tasks[t].st = "none"
              /\ wg' = wgAdd(wg)
              /\ tasks' = [tasks EXCEPT ![FreeTask].st = "spawned",
                                        ![FreeTask].late = (closing = "closed")]
              /\ plast' = PCall("Go", <<fn>>, "ok", "", {"task launch"}, NoRet, <<>>)
    /\ UNCHANGED <<state, log, crashed, closing, overlap, pending>>
    /\ UNCHANGED storeVars
    /\ UNCHANGED wired

\* the goroutine of Go is scheduled
TaskStart(t) ==
    /\ Alive
    /\ tasks[t].st = "spawned"
    /\ tasks' = [tasks EXCEPT ![t].st = "running"]
    /\ UNCHANGED <<state, wg, log, crashed, closing, plast, overlap, pending>>
    /\ UNCHANGED storeVars
    /\ UNCHANGED wired

\* _, err := r.Call(...); if err != nil { log.Error(err.Error()) }
\* the call returns, returns an error, or panics
TaskCall(t) ==
    /\ Alive
    /\ tasks[t].st = "running"
    /\ \E out \in { "ok", "err", "panic" } :
         /\ tasks' = [tasks EXCEPT ![t].st = "called", ![t].out = out,
                                    ![t].panicking = (out = "panic")]
         /\ log' = IF out = "err" THEN log \cup { [t |-> t, what |-> "err"] } ELSE log
         /\ overlap' = IF out = "panic"
                       THEN overlap \cup { u \in TaskIds \ {t} : tasks[u].st = "running" }
                       ELSE overlap
    /\ UNCHANGED <<state, wg, crashed, closing, plast, pending>>
    /\ UNCHANGED storeVars
    /\ UNCHANGED wired

\* a variant whose deferred function does not call recover()
AfterRecoverBug(task) == [task EXCEPT !.st = "recovered"]

\* the task once the deferred function has called recover()
AfterRecover(task) == [task EXCEPT !.st = "recovered", !.panicking = FALSE]

\* defer func() { if r := recover(); r != nil { log.Error(r) } }()
TaskRecover(t) ==
    /\ Alive
    /\ tasks[t].st = "called"
    /\ LET r == IF tasks[t].panicking THEN "panic" ELSE "nil"
       IN log' = IF r # "nil" THEN log \cup { [t |-> t, what |-> r] } ELSE log
    /\ tasks' = [tasks EXCEPT ![t] = AfterRecover(tasks[t])]
    /\ UNCHANGED <<state, wg, crashed, closing, plast, overlap, pending>>
    /\ UNCHANGED storeVars
    /\ UNCHANGED wired

\* a variant that forgets the counter after a panic
wgDoneBug(n, task) == IF task.out = "panic" THEN n ELSE n - 1

\* p.c.wg.Done()
wgDone(n, task) == n - 1

\* defer p.c.wg.Done(); a panic that is still under way when the goroutine
\* ends terminates the process
TaskDone(t) ==
    /\ Alive
    /\ tasks[t].st = "recovered"
    /\ wg' = wgDone(wg, tasks[t])
    /\ tasks' = [tasks EXCEPT ![t].st = "done"]
    /\ crashed' = tasks[t].panicking
    /\ UNCHANGED <<state, log, closing, plast, overlap, pending>>
    /\ UNCHANGED storeVars
    /\ UNCHANGED wired

\* the error a call of fn returns ("" is nil, which is all a function
\* without an error result can return)
FnErrs(fn) == IF fn = "func() error" THEN { "", "call failed" } ELSE { "" }

\* a variant that takes any function
AcceptsBug(fn) == IsFuncType(fn)

\* if fnType := reflect.TypeOf(fn); util.IsFuncType(fnType) {
\*     if util.ReturnNothing(fnType) || util.ReturnOnlyError(fnType) {
Accepts(fn) == IsFuncType(fn) /\ (ReturnNothing(fn) \/ ReturnOnlyError(fn))

\* pandora.Invoke; fnErr is what the call of fn returns
Invoke ==
    /\ Alive
    /\ \E fn \in Fns :
         \E fnErr \in FnErrs(fn) :
            plast' =
               IF ~Refreshed THEN Rejected("Invoke", <<fn, fnErr>>)
               ELSE IF Accepts(fn)
               THEN [PCall("Invoke", <<fn, fnErr>>, IF fnErr # "" THEN "error" ELSE "ok",
                           fnErr, {"function call"}, NoRet, <<>>)
                       EXCEPT !.calls = 1]
               ELSE PCall("Invoke", <<fn, fnErr>>, "error",
                          "fn should be func() or func()error", {}, NoRet, <<>>)
    /\ UNCHANGED <<state, wg, tasks, log, crashed, closing, overlap, pending>>
    /\ UNCHANGED storeVars
    /\ UNCHANGED wired

\* the shutdown of the container begins: cancel, then wg.Wait()
Close ==
    /\ Alive
    /\ Refreshed
    /\ closing = "open"
    /\ closing' = "waiting"
    /\ pending' = { t \in TaskIds : tasks[t].st \notin {"none", "done"} }
    /\ UNCHANGED <<state, wg, tasks, log, crashed, plast, overlap>>
    /\ UNCHANGED storeVars
    /\ UNCHANGED wired

\* wg.Wait() returns once the counter is zero
WaitReturns ==
    /\ Alive
    /\ closing = "waiting"
    /\ wg = 0
    /\ closing' = "closed"
    /\ UNCHANGED <<state, wg, tasks, log, crashed, plast, overlap, pending>>
    /\ UNCHANGED storeVars
    /\ UNCHANGED wired

----------------------------------------------------------------------------

\* the container before its refresh, with no task and no call yet
GsIdle ==
    /\ state = "Unrefreshed"
    /\ wg = 0
    /\ tasks = [t \in TaskIds |-> NoTask]
    /\ log = {}
    /\ crashed = FALSE
    /\ closing = "open"
    /\ plast = [op |-> "none", arg |-> <<>>, before |-> TRUE, outcome |-> "ok",
                err |-> "", work |-> {}, ret |-> NoRet, beans |-> <<>>,
                chain |-> <<>>, calls |-> 0]
    /\ overlap = {}
    /\ pending = {}
    /\ wired = {}

\* the property store on its own
Init ==
    /\ m = EmptyStore
    /\ pre = EmptyStore
    /\ last = Op("New", <<>>, 0, <<>>, NoRet, "", <<>>, FALSE)
    /\ nsets = 0
    /\ GsIdle

Next ==
    \/ Set
    \/ Read
    \/ Get
    \/ Keys
    \/ Group
    \/ Resolve

Spec == Init /\ [][Next]_vars

\* the resolver, on a store that was loaded with references
ResolveInit ==
    /\ m \in ResolveStores
    /\ pre = m
    /\ last = Op("New", <<>>, 0, <<>>, NoRet, "", <<>>, FALSE)
    /\ nsets = 0
    /\ GsIdle

ResolveNext ==
    \/ Resolve
    \/ Get

ResolveSpec == ResolveInit /\ [][ResolveNext]_vars

\* the store of the container
GsStore == Apply(EmptyStore, << Write(<<"a">>, <<"1">>) >>)

\* the container, over a store loaded before the refresh
GsInit ==
    /\ m = GsStore
    /\ pre = EmptyStore
    /\ last = Op("New", <<>>, 0, <<>>, NoRet, "", <<>>, FALSE)
    /\ nsets = 0
    /\ GsIdle

\* the calls of Pandora, before and after the refresh
GsNext ==
    \/ Refresh
    \/ Prop
    \/ pandora_Get
    \/ Find
    \/ Collect
    \/ pandora_Bind
    \/ Wire
    \/ Go
    \/ Invoke

GsSpec == GsInit /\ [][GsNext]_vars

\* Go, the goroutines it launches and the shutdown, interleaved
GoNext ==
    \/ Refresh
    \/ Go
    \/ \E t \in TaskIds : TaskStart(t)
    \/ \E t \in TaskIds : TaskCall(t)
    \/ \E t \in TaskIds : TaskRecover(t)
    \/ \E t \in TaskIds : TaskDone(t)
    \/ Close
    \/ WaitReturns

GoSpec == GsInit /\ [][GoNext]_vars

----------------------------------------------------------------------------
(* The leaves of a nested value, found by walking the tree of the value,    *)
(* independently of Set: a path is the sequence of steps from the root, a   *)
(* step is a map key or a slice index.                                      *)

Field(name) == [t |-> "field", name |-> name, i |-> 0]
Index(i) == [t |-> "index", name |-> <<>>, i |-> i]

IsComposite(v) == v.kind \in {"map", "slice"}

RECURSIVE LeafSet(_)
LeafSet(v) ==
    CASE v.kind = "map" ->
            UNION { { [path |-> <<Field(castToString(v.entries[n].k))>> \o l.path,
                       s |-> l.s] : l \in LeafSet(v.entries[n].v) } :
                    n \in 1..Len(v.entries) }
      [] v.kind = "slice" ->
            UNION { { [path |-> <<Index(n - 1)>> \o l.path, s |-> l.s] :
                        l \in LeafSet(v.elems[n]) } :
                    n \in 1..Len(v.elems) }
      [] OTHER -> { [path |-> <<>>, s |-> castToString(v)] }

\* the key suffix a path denotes: ".name" for a field, "[i]" for an index
RECURSIVE Render(_)
Render(path) ==
    IF path = <<>> THEN <<>>
    ELSE LET st == Head(path)
         IN (IF st.t = "field" THEN <<".">> \o st.name
             ELSE <<"[">> \o Digits(st.i) \o <<"]">>) \o Render(Tail(path))

\* the leaf assignments of Set(key, v)
LeafAssignments(key, v) ==
    { Write(key \o Render(l.path), l.s) : l \in LeafSet(v) }

Range(seq) == { seq[i] : i \in DOMAIN seq }

WrittenKeys(ws) == { w.k : w \in Range(ws) }

\* the last write of ws to key k
LastWrite(ws, k) ==
    ws[CHOOSE i \in DOMAIN ws :
          ws[i].k = k /\ \A j \in DOMAIN ws : j > i => ws[j].k # k]

\* the writes of the last call left every other key alone
FrameOfLast ==
    /\ DOMAIN m = (DOMAIN pre) \cup WrittenKeys(last.writes)
    /\ \A k \in DOMAIN pre : k \notin WrittenKeys(last.writes) => m[k] = pre[k]

----------------------------------------------------------------------------
(* Claims about the property store.                                         *)

\* C1: Set(k, v) writes exactly the leaf assignments of v -- a map entry f
\* under k.f, the i-th slice element under k[i], recursively, each scalar
\* leaf as its string form, one write per leaf -- and writes nothing for k
\* itself or for an intermediate composite node; every other key is left
\* as it was.
C1_SetWritesLeaves ==
    last.op = "Set" =>
        LET v == Vals[last.vi]
        IN /\ Range(last.writes) = LeafAssignments(last.key, v)
           /\ Len(last.writes) = Cardinality(LeafSet(v))
           /\ IsComposite(v) => last.key \notin WrittenKeys(last.writes)
           /\ \A w \in Range(last.writes) : w.k \in DOMAIN m
           /\ FrameOfLast

\* Set("a", [ "x", {1: true} ]) wrote a[0] = "x" and a[1].1 = "true"
C1_Witness ==
    /\ last.op = "Set"
    /\ last.key = <<"a">>
    /\ Vals[last.vi].kind = "slice"
    /\ Len(last.writes) = 2
    /\ <<"a", "[", "1", "]", ".", "1">> \in DOMAIN m
    /\ m[<<"a", "[", "1", "]", ".", "1">>] = <<"t", "r", "u", "e">>
    /\ m[<<"a", "[", "0", "]">>] = <<"x">>

\* the key Get looks up: key without one leading "$."
Stripped(key) ==
    IF Len(key) >= 2 /\ key[1] = "$" /\ key[2] = "."
    THEN [i \in 1..(Len(key) - 2) |-> key[i + 2]]
    ELSE key

\* the default a list of Def options supplies: the last one, nil if none
Supplied(opts) == IF opts = <<>> THEN Nil ELSE opts[Len(opts)]

\* C2: Get(key) strips a leading "$." and exact-matches the rest; it returns
\* the stored string when the key is present (the empty string included),
\* the string form of the default when the key is absent and a default was
\* supplied, and nil exactly when the key is absent and no default was.
C2_GetContract ==
    last.op = "Get" =>
        LET k == Stripped(last.key)
            d == Supplied(OptLists[last.vi])
        IN /\ k \in DOMAIN m => last.ret = [isnil |-> FALSE, s |-> m[k]]
           /\ (k \notin DOMAIN m /\ d.kind # "nil") =>
                 last.ret = [isnil |-> FALSE, s |-> castToString(d)]
           /\ last.ret.isnil <=> (k \notin DOMAIN m /\ d.kind = "nil")

\* Get("$.a") found a = "" and returned the empty string, not nil
C2_Witness ==
    /\ last.op = "Get"
    /\ last.key = <<"$", ".", "a">>
    /\ <<"a">> \in DOMAIN m
    /\ m[<<"a">>] = <<>>
    /\ last.ret = [isnil |-> FALSE, s |-> <<>>]

\* k2 is k extended by a ".segment" or "[index]" suffix
IsSubKey(k2, k) ==
    /\ Len(k2) > Len(k)
    /\ HasPrefix(k2, k)
    /\ k2[Len(k) + 1] \in {".", "["}

\* C3: every key denotes a leaf: no key of the store is another key
\* extended by a ".segment" or "[index]" suffix.
C3_EveryKeyIsLeaf ==
    \A k \in DOMAIN m, k2 \in DOMAIN m : ~IsSubKey(k2, k)

\* the text of s up to its first "."
SegmentOf(s) ==
    LET n == CHOOSE n \in 0..Len(s) :
                /\ \A i \in 1..n : s[i] # "."
                /\ n = Len(s) \/ s[n + 1] = "."
    IN [i \in 1..n |-> s[i]]

\* what follows "prefix." in the keys that begin with it
Under(mm, prefix) ==
    LET p == prefix \o <<".">>
    IN { [i \in 1..(Len(k) - Len(p)) |-> k[i + Len(p)]] :
            k \in { k \in DOMAIN mm :
                      Len(k) >= Len(p) /\ \A i \in 1..Len(p) : k[i] = p[i] } }

\* C4: Group(prefix) returns, without duplicates, exactly the first-level
\* child segment names under prefix, and for the root marker "$" the first
\* segments of all keys.
C4_GroupSegments ==
    last.op = "Group" =>
        /\ \A i, j \in DOMAIN last.list : last.list[i] = last.list[j] => i = j
        /\ Range(last.list) =
              IF last.key = <<"$">> THEN { SegmentOf(k) : k \in DOMAIN m }
              ELSE { SegmentOf(s) : s \in Under(m, last.key) }

\* with keys db.one.u and db.two.u, Group("db") is {one, two}
C4_Witness ==
    /\ last.op = "Group"
    /\ last.key = <<"d", "b">>
    /\ <<"d", "b", ".", "o", "n", "e", ".", "u">> \in DOMAIN m
    /\ <<"d", "b", ".", "t", "w", "o", ".", "u">> \in DOMAIN m
    /\ Len(last.list) = 2
    /\ Range(last.list) = { <<"o", "n", "e">>, <<"t", "w", "o">> }

\* C8: Read with an extension that has no registered decoder fails with
\* "unsupported file type <ext>", Read whose decoder returns an error returns
\* that error unchanged, and in both cases no Set is performed: the store is
\* exactly what it was before the call.
C8_ReadFailures ==
    last.op = "Read" =>
        LET ext == last.key[1]
            doc == Docs[last.vi]
        IN /\ ext \notin readers =>
                /\ last.err \in { "unsupported file type .txt" }
                /\ m = pre /\ last.writes = <<>>
           /\ (ext \in readers /\ doc.err # "") =>
                /\ last.err = doc.err
                /\ m = pre /\ last.writes = <<>>
           /\ last.err = "" => (ext \in readers /\ doc.err = "")

\* the yaml decoder handed back a non-empty map together with an error, and
\* Read returned the error and left a non-empty store alone
C8_Witness ==
    /\ last.op = "Read"
    /\ last.key = <<".yaml">>
    /\ Docs[last.vi].m.entries # <<>>
    /\ last.err = "yaml: incomplete document"
    /\ DOMAIN pre # {}
    /\ m = pre

\* the calls that write: Set, and a Read that did not fail
Wrote == last.op = "Set" \/ (last.op = "Read" /\ last.err = "")

\* C9 as stated: after Set(k, v), Get of every written key k' returns the
\* string form of the newly set leaf at k', and keys not written keep their
\* previous values.
C9_GetReturnsNewLeaf ==
    last.op = "Set" =>
        /\ \A w \in LeafAssignments(last.key, Vals[last.vi]) :
              GetValue(m, w.k, <<>>) = [isnil |-> FALSE, s |-> w.s]
        /\ FrameOfLast

\* C9 as amended: after a Set (or the Sets of a Read), the store holds at
\* every written key k' the string form of the newly set leaf at k' -- the
\* one written last when several leaves of v flatten to k' -- never the
\* earlier value; Get(k') returns it provided k' does not begin with "$.",
\* which Get strips before the lookup; keys not written keep their values.
C9_SetOverwrites ==
    Wrote =>
        /\ \A k \in WrittenKeys(last.writes) :
              /\ k \in DOMAIN m
              /\ m[k] = LastWrite(last.writes, k).s
              /\ ~HasPrefix(k, <<"$", ".">>) =>
                    GetValue(m, k, <<>>) = [isnil |-> FALSE, s |-> m[k]]
        /\ last.op = "Set" =>
              \A w \in LeafAssignments(last.key, Vals[last.vi]) :
                  m[w.k] \in { x.s : x \in { y \in LeafAssignments(last.key, Vals[last.vi]) :
                                               y.k = w.k } }
        /\ FrameOfLast

\* Set("a", nil) replaced the earlier a = "x" by the empty string
C9_Witness ==
    /\ last.op = "Set"
    /\ last.key = <<"a">>
    /\ Vals[last.vi].kind = "nil"
    /\ <<"a">> \in DOMAIN pre
    /\ pre[<<"a">>] = <<"x">>
    /\ m[<<"a">>] = <<>>

\* C10: Set(k, v) performed twice in a row leaves the store (key set and
\* every value) as the first Set(k, v) left it.
C10_SetIdempotent ==
    (last.op = "Set" /\ last.rep) => m = pre

\* the bodies of the references of t that lie in no other reference
RECURSIVE TopBodies(_)
TopBodies(t) ==
    LET start == RefStart(t, 1)
        end == IF start = 0 THEN 0 ELSE RefEnd(t, start, 0)
    IN IF start = 0 \/ end = 0 THEN {}
       ELSE { SubSeq(t, start + 2, end - 1) } \cup TopBodies(SubSeq(t, end + 1, Len(t)))

NameOf(body) == SplitDefault(body).name

\* the references met when the text that stands for ${body} is resolved:
\* those of the value of the name, or of the default if the name is absent
RefersTo(mm, body) ==
    LET ref == SplitDefault(body)
    IN IF ref.name \in DOMAIN mm THEN TopBodies(mm[ref.name])
       ELSE IF ref.hasDef THEN TopBodies(ref.def)
       ELSE {}

\* the references that can be met from those of S
RECURSIVE RefClosure(_, _)
RefClosure(mm, S) ==
    LET T == S \cup UNION { RefersTo(mm, b) : b \in S }
    IN IF T = S THEN S ELSE RefClosure(mm, T)

\* resolving s meets a reference to a name from within the resolution of
\* that name: the name refers to itself, directly or through others
Circular(mm, s) ==
    \E b \in RefClosure(mm, TopBodies(s)) :
        /\ NameOf(b) # <<>>
        /\ \E b2 \in RefClosure(mm, RefersTo(mm, b)) : NameOf(b2) = NameOf(b)

\* ${a:=${b}}
RefAB == <<"$", "{", "a", ":", "=", "$", "{", "b", "}", "}">>

\* C15: Resolve always returns, with a string or with an error; a reference
\* that refers to itself, directly or through other references, never
\* resolves to a string, and ${a:=${b}} with b defined as ${a} ends in the
\* error "reference cycle"; that error is given for no other reason.
C15_ResolveCycle ==
    last.op = "Resolve" =>
        /\ last.err \in { "", "reference cycle", "property not exists" }
        /\ Circular(m, last.key) => last.err # ""
        /\ last.err = "reference cycle" => Circular(m, last.key)
        /\ (last.key = RefAB /\ <<"a">> \notin DOMAIN m /\ <<"b">> \in DOMAIN m
              /\ m[<<"b">>] = <<"$", "{", "a", "}">>) => last.err = "reference cycle"

\* Resolve("${a:=${b}}") on the store that holds b = "${a}" and no a
\* returned the error "reference cycle"
C15_Witness ==
    /\ last.op = "Resolve"
    /\ last.key = RefAB
    /\ <<"a">> \notin DOMAIN m
    /\ <<"b">> \in DOMAIN m
    /\ m[<<"b">>] = <<"$", "{", "a", "}">>
    /\ last.err = "reference cycle"

\* t holds no reference
IsLiteral(t) == ~ \E i \in 1..(Len(t) - 1) : t[i] = "$" /\ t[i + 1] = "{"

\* s is one reference ${name:=default}, name without ":" or "$"
IsRefWithDefault(s, name, def) ==
    /\ s = <<"$", "{">> \o name \o <<":", "=">> \o def \o <<"}">>
    /\ \A i \in DOMAIN name : name[i] \notin { ":", "$", "{", "}" }
    /\ TopBodies(s) = { name \o <<":", "=">> \o def }

\* the ways to cut the inside of s into a name and a default
Cuts(s) ==
    { [name |-> SubSeq(s, 3, k - 1), def |-> SubSeq(s, k + 2, Len(s) - 1)] :
        k \in 3..(Len(s) - 2) }

GroupNames(mm, prefix) == UNION { Range(g) : g \in GroupResults(mm, prefix) }

\* the reconstruction driven by Group: from prefix, a key of the store is a
\* leaf, and every name Group(prefix) returns is a child to walk from
\* prefix.name in turn
RECURSIVE Reconstruct(_, _)
Reconstruct(mm, prefix) ==
    (IF prefix \in DOMAIN mm THEN { prefix } ELSE {})
        \cup UNION { Reconstruct(mm, prefix \o Dot \o c) : c \in GroupNames(mm, prefix) }

\* C11: after Set(k, v) into an empty store, the reconstruction that walks
\* the store from k, with Group enumerating the children at each level,
\* recovers exactly the leaf keys of v, those under sequence elements k[i]
\* included.
C11_SetGroupRoundTrip ==
    (last.op = "Set" /\ pre = EmptyStore) =>
        Reconstruct(m, last.key) =
            { w.k : w \in LeafAssignments(last.key, Vals[last.vi]) }

ReadOps == { "Get", "Keys", "Group", "Resolve" }

\* C19: keys are never deleted: no call of Set, Read, Get, Keys, Group or
\* Resolve removes a key from the store, so a key that is present stays
\* present, and Get, Keys and Group (and Resolve) leave the store exactly
\* as it was.
C19_KeysNeverDeleted ==
    [][ /\ DOMAIN m \subseteq DOMAIN m'
        /\ last'.op \in ReadOps => m' = m ]_vars

\* Keys listed a and a.b: the key a of the first Set was still there after
\* a second Set had written below it
C19_Witness ==
    /\ last.op = "Keys"
    /\ nsets = 2
    /\ DOMAIN m = { <<"a">>, <<"a", ".", "b">> }
    /\ m[<<"a">>] = <<"x">>
    /\ Len(last.list) = 2
    /\ Range(last.list) = DOMAIN m

----------------------------------------------------------------------------
(* Claims about the container.                                              *)

GatedOps == { "Prop", "Get", "Collect", "Bind", "Wire", "Go", "Invoke" }

\* C5: every Pandora operation except Find, called before the refresh has
\* completed, is rejected and performs none of its work: no property read,
\* no bean lookup, no binding, no task launch, no function call.
C5_AllGatedOnRefresh ==
    (plast.op \in GatedOps /\ plast.before) =>
        /\ plast.outcome \in { "panic", "error" }
        /\ plast.work = {}
        /\ plast.ret = NoRet
        /\ plast.beans = <<>>

\* C12: Collect with one or more selectors gathers exactly one singleton
\* per selector and returns them in the order of the selector list; if any
\* selector matches no definition or more than one, the whole call fails
\* with an error and delivers no bean at all.
C12_CollectSelective ==
    (plast.op = "Collect" /\ ~plast.before /\ IsPtr(plast.arg[1])
        /\ Len(plast.arg) > 1) =>
        LET type == Elem(plast.arg[1])
            sel == Tail(plast.arg)
        IN IF \A n \in DOMAIN sel : Cardinality(Matches(type, sel[n])) = 1
           THEN /\ plast.outcome = "ok"
                /\ plast.err = ""
                /\ Len(plast.beans) = Len(sel)
                /\ \A n \in DOMAIN sel : plast.beans[n] \in Matches(type, sel[n])
           ELSE /\ plast.outcome = "error"
                /\ plast.err # ""
                /\ plast.beans = <<>>

\* Collect(&us, "c", "b") returned the bean c before the bean b, against
\* the order of their registration
C12_Witness ==
    /\ plast.op = "Collect"
    /\ plast.arg = <<"*U", "c", "b">>
    /\ plast.outcome = "ok"
    /\ plast.beans = <<3, 2>>

\* definition n is fully wired: it is Wired, and so is the one definition
\* that matches each of its requirements
FullyWired(n) ==
    /\ n \in wired
    /\ \A k \in DOMAIN BeanDefs[n].requires :
          LET req == BeanDefs[n].requires[k]
          IN \E d \in wired : Matches(req.type, req.selector) = {d}

\* C13: Get assigns into the target only when exactly one singleton matches
\* the selector, and that one fully wired; it returns an error and leaves
\* the target unassigned when no definition or several match, when the
\* target is nil, and when the target is not a pointer.  (Before the
\* refresh Get assigns nothing either; a nil target is answered with the
\* error even then.)
C13_GetAssignsOne ==
    plast.op = "Get" =>
        LET i == plast.arg[1]
            found == Matches(Elem(i), plast.arg[2])
        IN /\ plast.beans # <<>> =>
                /\ plast.outcome = "ok"
                /\ ~plast.before /\ i # "nil" /\ IsPtr(i)
                /\ Len(plast.beans) = 1
                /\ found = { plast.beans[1] }
                /\ FullyWired(plast.beans[1])
           /\ (~plast.before /\ (i = "nil" \/ ~IsPtr(i) \/ Cardinality(found) # 1)) =>
                /\ plast.outcome = "error"
                /\ plast.err # ""
                /\ plast.beans = <<>>
           /\ i = "nil" => plast.outcome = "error" /\ plast.beans = <<>>
           /\ plast.outcome = "ok" => plast.beans # <<>>

\* Get(&d) found the one definition of type D, wired it together with
\* what it requires, and assigned it
C13_Witness ==
    /\ plast.op = "Get"
    /\ plast.arg = <<"*D", "">>
    /\ plast.outcome = "ok"
    /\ plast.beans = <<4>>
    /\ {1, 4, 5, 6} \subseteq wired

\* C14: on a refreshed container Invoke calls fn exactly once when fn is a
\* function that returns nothing or only an error, and then returns without
\* an error, or with the error fn returned; for anything else -- not a
\* function, or a function of another return shape -- it returns an error
\* and fn is never called.
C14_InvokeCallsOnce ==
    (plast.op = "Invoke" /\ ~plast.before) =>
        LET fn == plast.arg[1]
            fnErr == plast.arg[2]
        IN IF fn \in { "func()", "func() error" }
           THEN /\ plast.calls = 1
                /\ plast.err = fnErr
                /\ plast.outcome = IF fnErr = "" THEN "ok" ELSE "error"
           ELSE /\ plast.calls = 0
                /\ plast.outcome = "error"
                /\ plast.err = "fn should be func() or func()error"

\* Invoke called a func() error once and handed its error on
C14_Witness ==
    /\ plast.op = "Invoke"
    /\ ~plast.before
    /\ plast.arg = <<"func() error", "call failed">>
    /\ plast.calls = 1
    /\ plast.outcome = "error"
    /\ plast.err = "call failed"

\* the definitions that match the requirements reqs
DepsOf(reqs) == UNION { Matches(reqs[k].type, reqs[k].selector) : k \in DOMAIN reqs }

\* the definitions required, directly or through others, by those of S
RECURSIVE DefClosure(_)
DefClosure(S) ==
    LET T == S \cup UNION { DepsOf(BeanDefs[n].requires) : n \in S }
    IN IF T = S THEN S ELSE DefClosure(T)

\* definition n requires itself, directly or through others
OnCircle(n) == n \in DefClosure(DepsOf(BeanDefs[n].requires))

\* every requirement in reqs is matched by exactly one definition
SingleMatches(reqs) ==
    \A k \in DOMAIN reqs : Cardinality(Matches(reqs[k].type, reqs[k].selector)) = 1

DefNamed(name) == CHOOSE n \in DOMAIN BeanDefs : BeanDefs[n].name = name

\* chain is a full report of a circle met when wiring b: it starts at b,
\* every bean on it requires the next, and it ends at a definition that
\* is on it already and is not Wired
FullChain(b, chain) ==
    /\ Len(chain) >= 3
    /\ chain[1] = b.name
    /\ DefNamed(chain[2]) \in DepsOf(b.requires)
    /\ \A k \in 2..(Len(chain) - 1) :
          DefNamed(chain[k + 1]) \in DepsOf(BeanDefs[DefNamed(chain[k])].requires)
    /\ \E k \in 2..(Len(chain) - 1) : chain[k] = chain[Len(chain)]
    /\ \A k \in 2..Len(chain) : DefNamed(chain[k]) \notin wired

\* C17: when wiring a bean reaches, depth-first, a definition that requires
\* itself directly or through others, so that it is met again while it is
\* still being wired, the call of Wire fails with a circular-dependency
\* error that reports the whole chain, and returns no instance; when no
\* such definition is reached the call succeeds, a definition that is
\* already Wired being referenced again without error.
C17_WiringCycle ==
    (plast.op = "Wire" /\ ~plast.before) =>
        LET b == CHOOSE x \in Range(AdHoc) : x.name = plast.arg[1]
            reach == DefClosure(DepsOf(b.requires))
            single == /\ SingleMatches(b.requires)
                      /\ \A n \in reach : SingleMatches(BeanDefs[n].requires)
        IN /\ (single /\ \E n \in reach : OnCircle(n)) =>
                /\ plast.outcome = "error"
                /\ plast.err = "found circle autowire"
                /\ plast.ret = NoRet
                /\ FullChain(b, plast.chain)
           /\ (single /\ \A n \in reach : ~OnCircle(n)) =>
                /\ plast.outcome = "ok"
                /\ plast.ret = [isnil |-> FALSE, s |-> <<b.name>>]
                /\ reach \subseteq wired
           /\ plast.outcome = "error" => plast.ret = NoRet

\* Wire of a bean that requires p, where p requires q and q requires p,
\* failed and reported the chain cyclic, p, q, p
C17_Witness ==
    /\ plast.op = "Wire"
    /\ plast.arg = <<"cyclic">>
    /\ plast.outcome = "error"
    /\ plast.err = "found circle autowire"
    /\ plast.chain = <<"cyclic", "p", "q", "p">>
    /\ plast.ret = NoRet
    /\ 1 \in wired

\* C18: Bind called with any value that is not a pointer fails at once
\* with an explicit error: the binder is not entered, no property is read,
\* nothing is bound, and the store is left as it was.
C18_BindRequiresPointer ==
    (plast.op = "Bind" /\ ~IsPtr(plast.arg[1])) =>
        /\ plast.outcome = "error"
        /\ plast.err # ""
        /\ plast.work = {}
        /\ m = GsStore

Unfinished(t) == tasks[t].st \notin { "none", "done" }

\* C6 as stated: once the wait of the shutdown has returned, no task
\* launched by Go is still running or has yet to run.
C6_NoTaskAfterShutdown ==
    closing = "closed" => \A t \in TaskIds : ~Unfinished(t)

\* C6 as amended: once the wait of the shutdown has returned, every task
\* launched by a Go call made before it returned -- while the shutdown was
\* waiting included -- has finished; only a task launched by a Go call made
\* after the return can be unfinished.
C6_ShutdownWaitsForTasks ==
    closing = "closed" => \A t \in TaskIds : Unfinished(t) => tasks[t].late

\* the shutdown began with tasks under way -- one more was launched while
\* it waited -- and its wait returned after all of them had finished
C6_Witness ==
    /\ closing = "closed"
    /\ pending # {}
    /\ \E t \in TaskIds : t \notin pending /\ tasks[t].st = "done" /\ ~tasks[t].late
    /\ \A t \in pending : tasks[t].st = "done"

\* task t can take its next step
CanStep(t) ==
    \/ ENABLED TaskStart(t)
    \/ ENABLED TaskCall(t)
    \/ ENABLED TaskRecover(t)
    \/ ENABLED TaskDone(t)

\* C7: a panic or an error inside a task launched by Go is recovered and
\* logged inside that task: the process is never terminated, the caller of
\* Go sees nothing of it, and every other task can run on to its end.
C7_TaskPanicContained ==
    /\ ~crashed
    /\ \A t \in TaskIds :
          /\ tasks[t].st \in { "recovered", "done" } =>
                /\ ~tasks[t].panicking
                /\ tasks[t].out = "panic" => [t |-> t, what |-> "panic"] \in log
                /\ tasks[t].out = "err" => [t |-> t, what |-> "err"] \in log
          /\ Unfinished(t) => CanStep(t)
    /\ (plast.op = "Go" /\ plast.outcome = "panic") =>
          plast.err \in { NotRefreshed, "fn should be func()" }

\* a task panicked while another was running, and the other one went on
\* to return normally
C7_Witness ==
    /\ \E t \in TaskIds : tasks[t].out = "panic" /\ tasks[t].st = "done"
    /\ \E u \in overlap : tasks[u].out = "ok" /\ tasks[u].st = "done"
    /\ plast.op = "Go" /\ plast.outcome = "ok"

\* C20: the counter of the wait group always equals the number of tasks
\* launched by Go that have not finished -- Go adds one for each task it
\* launches, before the task runs, and each task takes one off when it
\* ends, whether its call returned, returned an error or panicked -- so it
\* is never negative and is zero when every task has ended; a Go call that
\* is rejected leaves the counter alone and launches nothing.
C20_CounterCountsTasks ==
    /\ [](/\ wg = Cardinality({ t \in TaskIds : Unfinished(t) })
          /\ wg >= 0
          /\ (\A t \in TaskIds : tasks[t].st \in { "none", "done" }) => wg = 0)
    /\ [][ (plast' # plast /\ plast'.op = "Go" /\ plast'.outcome = "panic") =>
              (wg' = wg /\ tasks' = tasks) ]_vars
    /\ [][ (plast' # plast /\ plast'.op = "Go" /\ plast'.outcome = "ok") =>
              (wg' = wg + 1 /\ \E t \in TaskIds :
                    /\ tasks[t].st = "none"
                    /\ tasks'[t].st = "spawned"
                    /\ \A u \in TaskIds \ {t} : tasks'[u] = tasks[u]) ]_vars

\* one task panicked, the other returned an error, both have ended and the
\* counter is back at zero; a Go call with a func() error had been refused
C20_Witness ==
    /\ wg = 0
    /\ \E t \in TaskIds : tasks[t].st = "done" /\ tasks[t].out = "panic"
    /\ \E t \in TaskIds : tasks[t].st = "done" /\ tasks[t].out = "err"
    /\ plast.op = "Go" /\ plast.outcome = "panic" /\ plast.err = "fn should be func()"

====
